---- MODULE Spec2Model ----
(***************************************************************************)
(* A model of the blog backend: the users and posts tables, the CRUD       *)
(* handlers of routers/users.py and routers/posts.py, the older handlers   *)
(* of main.py, and the login / bearer-token flow.                          *)
(***************************************************************************)
EXTENDS Integers, FiniteSets, Sequences, TLC

VARIABLES users, posts, now, issued, req, resp, reqs

vars == <<users, posts, now, issued, req, resp, reqs>>

(***************************************************************************)
(* Bounds of the model.                                                    *)
(***************************************************************************)
MaxUsers == 2
MaxPosts == 2
MaxTicks == 2
MaxTokens == 1
MaxReqs == 2

(***************************************************************************)
(* Values the requests are drawn from.                                     *)
(***************************************************************************)
None == "None"
Usernames == {"bob", "Bob", "amy"}
Emails == {"b@x.io", "B@x.io", "a@x.io"}
Passwords == {"pw1", "pw2"}
ImageFiles == {"a.png"}
Titles == {"t1", "t2"}
Contents == {"c1", "c2"}
TickMinutes == {20}

UserIds == 1..MaxUsers
PostIds == 1..MaxPosts

\* str.lower() on the strings of the model
Lower(s) ==
    CASE s = "Bob" -> "bob"
      [] s = "B@x.io" -> "b@x.io"
      [] OTHER -> s

\* str(n) and int(s) on the ids of the model; int of anything else raises
Digits == <<"1", "2", "3", "4", "5", "6", "7", "8", "9">>
ValueError == -1
str_of(n) == Digits[n]
int_of(s) ==
    IF \E n \in 1..Len(Digits) : Digits[n] = s
    THEN CHOOSE n \in 1..Len(Digits) : Digits[n] = s
    ELSE ValueError

Max(S) == CHOOSE m \in S : \A x \in S : x <= m

\* INTEGER PRIMARY KEY of SQLite: the next rowid is one more than the largest
NextId(table) == IF DOMAIN table = {} THEN 1 ELSE Max(DOMAIN table) + 1

\* a table without / with one more row
RemoveAll(table, id) == <<>>
Remove(table, id) == [i \in DOMAIN table \ {id} |-> table[i]]
Put(table, id, row) == [i \in DOMAIN table \cup {id} |-> IF i = id THEN row ELSE table[i]]

(***************************************************************************)
(* Settings.                                                               *)
(***************************************************************************)
secret_key == "secret"
algorithm == "HS256"
access_token_expire_minutes == 30

(***************************************************************************)
(* Responses.                                                              *)
(***************************************************************************)
NoBody == <<>>
Response(status, detail, headers, body) ==
    [status |-> status, detail |-> detail, headers |-> headers, body |-> body]
Ok(status, body) == Response(status, None, None, body)
HTTPException(status, detail, headers) == Response(status, detail, headers, NoBody)

(***************************************************************************)
(* auth: password hashing and the signed, time-bounded bearer token.       *)
(***************************************************************************)
hash_password(password) == <<"hash", password>>
verify_password(plain, hashed) == hashed = hash_password(plain)

\* an HMAC over the token's contents: equal only for equal key and contents
Sign(key, sub, exp) == <<key, algorithm, sub, exp>>

create_access_token(sub, expires_delta, t) ==
    [kind |-> "jwt", sub |-> sub, exp |-> t + expires_delta,
     sig |-> Sign(secret_key, sub, t + expires_delta)]

ValidSignature(token) ==
    token.kind = "jwt" /\ token.sig = Sign(secret_key, token.sub, token.exp)

\* the subject, or None for a malformed, wrongly signed or expired token
verify_access_token(token, t) ==
    IF token.kind # "jwt" THEN None
    ELSE IF token.sig # Sign(secret_key, token.sub, token.exp) THEN None
    ELSE IF token.exp <= t THEN None
    ELSE token.sub

(***************************************************************************)
(* The users table and the response schemas.                               *)
(***************************************************************************)
User(username, email, password_hash, image_file) ==
    [username |-> username, email |-> email,
     password_hash |-> password_hash, image_file |-> image_file]

UserPublic(id, u) ==
    [id |-> id, username |-> u.username, image_file |-> u.image_file]
UserPrivate(id, u) ==
    [id |-> id, username |-> u.username, image_file |-> u.image_file,
     email |-> u.email]

\* unique=True on users.username and users.email: exact comparison
NoUniqueConstraint(us, id, row) == FALSE
UniqueViolation(us, id, row) ==
    \E j \in DOMAIN us \ {id} :
        us[j].username = row.username \/ us[j].email = row.email

\* relationship(cascade='all, delete-orphan'): the posts deleted with a user
NoCascade(ps, uid) == {}
CascadePosts(ps, uid) == {p \in DOMAIN ps : ps[p].user_id = uid}

IntegrityError == HTTPException(500, "Internal Server Error", None)

(***************************************************************************)
(* routers/users.py                                                        *)
(***************************************************************************)
\* select ... where lower(username) == username.lower()
UsersByUsernameExact(us, username) ==
    {i \in DOMAIN us : us[i].username = username}
UsersByUsername(us, username) ==
    {i \in DOMAIN us : Lower(us[i].username) = Lower(username)}

\* select ... where lower(email) == email.lower()
UsersByEmailExact(us, email) ==
    {i \in DOMAIN us : us[i].email = email}
UsersByEmail(us, email) ==
    {i \in DOMAIN us : Lower(us[i].email) = Lower(email)}

new_user_email_as_given(username, email, password) ==
    User(username, email, hash_password(password), None)
new_user(username, email, password) ==
    User(username, Lower(email), hash_password(password), None)

create_user(username, email, password) ==
    LET row == new_user(username, email, password)
        id == NextId(users)
    IN /\ IF UsersByUsername(users, username) # {}
          THEN /\ resp' = HTTPException(400, "Username already exists", None)
               /\ UNCHANGED users
          ELSE IF UsersByEmail(users, email) # {}
          THEN /\ resp' = HTTPException(400, "Email already exists", None)
               /\ UNCHANGED users
          ELSE IF UniqueViolation(users, id, row)
          THEN /\ resp' = IntegrityError
               /\ UNCHANGED users
          ELSE /\ id <= MaxUsers
               /\ users' = Put(users, id, row)
               /\ resp' = Ok(201, <<UserPrivate(id, row)>>)
       /\ UNCHANGED <<posts, now, issued, reqs>>
       /\ req' = <<"create_user", username, email, password>>

\* the token login issues for user id at time t
LoginTokenSeconds(id, t) ==
    create_access_token(str_of(id), access_token_expire_minutes \div 60, t)
LoginTokenHours(id, t) ==
    create_access_token(str_of(id), access_token_expire_minutes * 60, t)
LoginToken(id, t) ==
    create_access_token(str_of(id), access_token_expire_minutes, t)

\* verify_password(form_data.password, user.password_hash)
password_ok_any(us, i, password) ==
    \E j \in DOMAIN us : verify_password(password, us[j].password_hash)
password_ok(us, i, password) ==
    verify_password(password, us[i].password_hash)

\* what is remembered of an issued token: whom it was issued to and when,
\* and whether that user has been deleted since
Grant(id, t) ==
    [token |-> LoginToken(id, t), uid |-> id, iat |-> t, deleted |-> FALSE]
HolderDeleted(grants, id) ==
    {IF g.uid = id THEN [g EXCEPT !.deleted = TRUE] ELSE g : g \in grants}

\* the form's "username" field carries the email; first() takes one match
login_for_access_token(username, password) ==
    /\ IF UsersByEmail(users, username) = {}
       THEN /\ resp' = HTTPException(401, "Incorrect email or password", "Bearer")
            /\ UNCHANGED issued
       ELSE \E i \in UsersByEmail(users, username) :
               IF ~password_ok(users, i, password)
               THEN /\ resp' = HTTPException(401, "Incorrect email or password",
                                             "Bearer")
                    /\ UNCHANGED issued
               ELSE /\ Cardinality(issued \cup {Grant(i, now)}) <= MaxTokens
                    /\ issued' = issued \cup {Grant(i, now)}
                    /\ resp' = Ok(200, <<[access_token |-> LoginToken(i, now),
                                          token_type |-> "bearer"]>>)
    /\ UNCHANGED <<users, posts, now, reqs>>
    /\ req' = <<"login_for_access_token", username, password>>

InvalidTokenNoHeader == HTTPException(401, "Invalid or expired token", None)
InvalidToken == HTTPException(401, "Invalid or expired token", "Bearer")

\* user_id = verify_access_token(token)
token_subject_unverified(token, t) ==
    IF token.kind = "jwt" THEN token.sub ELSE None
token_subject(token, t) == verify_access_token(token, t)

\* select ... where id == user_id
UserByIdAny(us, id) == DOMAIN us
UserById(us, id) == {i \in DOMAIN us : i = id}

get_current_user(token) ==
    LET user_id == token_subject(token, now)
    IN /\ IF user_id = None
          THEN resp' = InvalidToken
          ELSE IF int_of(user_id) = ValueError
          THEN resp' = InvalidToken
          ELSE IF UserById(users, int_of(user_id)) = {}
          THEN resp' = HTTPException(401, "User not found", "Bearer")
          ELSE \E i \in UserById(users, int_of(user_id)) :
                  resp' = Ok(200, <<UserPrivate(i, users[i])>>)
       /\ UNCHANGED <<users, posts, now, issued, reqs>>
       /\ req' = <<"get_current_user", token>>

get_user(user_id) ==
    /\ IF UserById(users, user_id) = {}
       THEN resp' = HTTPException(404, "User not found", None)
       ELSE \E i \in UserById(users, user_id) :
               resp' = Ok(200, <<UserPublic(i, users[i])>>)
    /\ UNCHANGED <<users, posts, now, issued, reqs>>
    /\ req' = <<"get_user", user_id>>

(***************************************************************************)
(* The posts table and its response schema.                                *)
(***************************************************************************)
Post(title, content, user_id, date_posted) ==
    [title |-> title, content |-> content, user_id |-> user_id,
     date_posted |-> date_posted]

PostResponse(id, p, us) ==
    [id |-> id, title |-> p.title, content |-> p.content,
     user_id |-> p.user_id, date_posted |-> p.date_posted,
     author |-> UserPublic(p.user_id, us[p.user_id])]

\* the orders "order by date_posted desc" may return the rows ids in
OrderByDatePostedAsc(ps, ids) ==
    {s \in [1..Cardinality(ids) -> ids] :
        /\ \A i, j \in DOMAIN s : i # j => s[i] # s[j]
        /\ \A i, j \in DOMAIN s : i < j =>
              ps[s[i]].date_posted <= ps[s[j]].date_posted}
OrderByDatePostedDesc(ps, ids) ==
    {s \in [1..Cardinality(ids) -> ids] :
        /\ \A i, j \in DOMAIN s : i # j => s[i] # s[j]
        /\ \A i, j \in DOMAIN s : i < j =>
              ps[s[i]].date_posted >= ps[s[j]].date_posted}

PostList(ps, us, order) ==
    [k \in DOMAIN order |-> PostResponse(order[k], ps[order[k]], us)]

get_user_posts(user_id) ==
    /\ IF UserById(users, user_id) = {}
       THEN resp' = HTTPException(404, "User not found", None)
       ELSE \E order \in OrderByDatePostedDesc(posts,
                            {p \in DOMAIN posts : posts[p].user_id = user_id}) :
               resp' = Ok(200, PostList(posts, users, order))
    /\ UNCHANGED <<users, posts, now, issued, reqs>>
    /\ req' = <<"get_user_posts", user_id>>

\* the row update_user writes: only the fields the request carries
updated_user(u, username, email, image_file) ==
    User(IF username # None THEN username ELSE u.username,
         IF email # None THEN Lower(email) ELSE u.email,
         u.password_hash,
         IF image_file # None THEN image_file ELSE u.image_file)

update_user(user_id, username, email, image_file) ==
    /\ IF UserById(users, user_id) = {}
       THEN /\ resp' = HTTPException(404, "User not found", None)
            /\ UNCHANGED users
       ELSE \E i \in UserById(users, user_id) :
           LET user == users[i]
               row == updated_user(user, username, email, image_file)
           IN IF /\ username # None
                 /\ Lower(username) # Lower(user.username)
                 /\ UsersByUsername(users, username) # {}
              THEN /\ resp' = HTTPException(400, "Username already exists", None)
                   /\ UNCHANGED users
              ELSE IF /\ email # None
                      /\ Lower(email) # Lower(user.email)
                      /\ UsersByEmail(users, email) # {}
              THEN /\ resp' = HTTPException(400, "Email already registered", None)
                   /\ UNCHANGED users
              ELSE IF row # user /\ UniqueViolation(users, i, row)
              THEN /\ resp' = IntegrityError
                   /\ UNCHANGED users
              ELSE /\ users' = Put(users, i, row)
                   /\ resp' = Ok(200, <<UserPrivate(i, row)>>)
    /\ UNCHANGED <<posts, now, issued, reqs>>
    /\ req' = <<"update_user", user_id, username, email, image_file>>

delete_user(user_id) ==
    /\ IF UserById(users, user_id) = {}
       THEN /\ resp' = HTTPException(404, "User not found", None)
            /\ UNCHANGED <<users, posts, issued>>
       ELSE \E i \in UserById(users, user_id) :
               /\ users' = Remove(users, i)
               /\ posts' = [p \in DOMAIN posts \ CascadePosts(posts, i) |-> posts[p]]
               /\ issued' = HolderDeleted(issued, i)
               /\ resp' = Ok(204, NoBody)
    /\ UNCHANGED <<now, reqs>>
    /\ req' = <<"delete_user", user_id>>

(***************************************************************************)
(* routers/posts.py                                                        *)
(***************************************************************************)
\* select ... where id == post_id
PostByIdAny(ps, id) == DOMAIN ps
PostById(ps, id) == {p \in DOMAIN ps : p = id}

get_posts ==
    /\ \E order \in OrderByDatePostedDesc(posts, DOMAIN posts) :
          resp' = Ok(200, PostList(posts, users, order))
    /\ UNCHANGED <<users, posts, now, issued, reqs>>
    /\ req' = <<"get_posts">>

\* date_posted: default=lambda: datetime.now(UTC), on insert only
new_post(title, content, user_id, t) == Post(title, content, user_id, t)

create_post(title, content, user_id) ==
    LET row == new_post(title, content, user_id, now)
        id == NextId(posts)
    IN /\ IF UserById(users, user_id) = {}
          THEN /\ resp' = HTTPException(404, "User not found", None)
               /\ UNCHANGED posts
          ELSE /\ id <= MaxPosts
               /\ posts' = Put(posts, id, row)
               /\ resp' = Ok(201, <<PostResponse(id, row, users)>>)
       /\ UNCHANGED <<users, now, issued, reqs>>
       /\ req' = <<"create_post", user_id>>

get_post(post_id) ==
    /\ IF PostById(posts, post_id) = {}
       THEN resp' = HTTPException(404, "Post not found", None)
       ELSE \E p \in PostById(posts, post_id) :
               resp' = Ok(200, <<PostResponse(p, posts[p], users)>>)
    /\ UNCHANGED <<users, posts, now, issued, reqs>>
    /\ req' = <<"get_post", post_id>>

\* the row PUT writes: title, content and user_id of the request
full_update_fresh(post, title, content, user_id) ==
    Post(title, content, user_id, now)
full_update_keep_owner(post, title, content, user_id) ==
    [post EXCEPT !.title = title, !.content = content]
full_update(post, title, content, user_id) ==
    [post EXCEPT !.title = title, !.content = content, !.user_id = user_id]

update_post_full(post_id, title, content, user_id) ==
    /\ IF PostById(posts, post_id) = {}
       THEN /\ resp' = HTTPException(404, "Post not found", None)
            /\ UNCHANGED posts
       ELSE \E p \in PostById(posts, post_id) :
           LET row == full_update(posts[p], title, content, user_id)
           IN IF user_id # posts[p].user_id /\ UserById(users, user_id) = {}
              THEN /\ resp' = HTTPException(404, "User not found", None)
                   /\ UNCHANGED posts
              ELSE /\ posts' = Put(posts, p, row)
                   /\ resp' = Ok(200, <<PostResponse(p, row, users)>>)
    /\ UNCHANGED <<users, now, issued, reqs>>
    /\ req' = <<"update_post_full", post_id, user_id>>

\* model_dump(exclude_unset=True) and setattr: a field the request did not
\* send is Unset; a field sent as null is None
Unset == "Unset"
partial_update(post, title, content) ==
    [post EXCEPT !.title = IF title # Unset THEN title ELSE @,
                 !.content = IF content # Unset THEN content ELSE @]

\* nullable=False on posts.title and posts.content
NotNullViolation(row) == row.title = None \/ row.content = None

update_post_partial(post_id, title, content) ==
    /\ IF PostById(posts, post_id) = {}
       THEN /\ resp' = HTTPException(404, "Post not found", None)
            /\ UNCHANGED posts
       ELSE \E p \in PostById(posts, post_id) :
           LET row == partial_update(posts[p], title, content)
           IN IF NotNullViolation(row)
              THEN /\ resp' = IntegrityError
                   /\ UNCHANGED posts
              ELSE /\ posts' = Put(posts, p, row)
                   /\ resp' = Ok(200, <<PostResponse(p, row, users)>>)
    /\ UNCHANGED <<users, now, issued, reqs>>
    /\ req' = <<"update_post_partial", post_id>>

delete_post(post_id) ==
    /\ IF PostById(posts, post_id) = {}
       THEN /\ resp' = HTTPException(404, "Post not found", None)
            /\ UNCHANGED posts
       ELSE \E p \in PostById(posts, post_id) :
               /\ posts' = Remove(posts, p)
               /\ resp' = Ok(204, NoBody)
    /\ UNCHANGED <<users, now, issued, reqs>>
    /\ req' = <<"delete_post", post_id>>

(***************************************************************************)
(* main.py: the handlers registered under /api on the application itself.  *)
(***************************************************************************)
\* select ... where username == username, and where email == email
MainUsersByUsername(us, username) ==
    {i \in DOMAIN us : us[i].username = username}
MainUsersByEmail(us, email) ==
    {i \in DOMAIN us : us[i].email = email}

\* no password is stored
NoHash == <<>>
main_new_user(username, email) == User(username, email, NoHash, None)

main_create_user(username, email) ==
    LET row == main_new_user(username, email)
        id == NextId(users)
    IN /\ IF MainUsersByUsername(users, username) # {}
          THEN /\ resp' = HTTPException(400, "Username already exists", None)
               /\ UNCHANGED users
          ELSE IF MainUsersByEmail(users, email) # {}
          THEN /\ resp' = HTTPException(400, "Email already exists", None)
               /\ UNCHANGED users
          ELSE IF UniqueViolation(users, id, row)
          THEN /\ resp' = IntegrityError
               /\ UNCHANGED users
          ELSE /\ id <= MaxUsers
               /\ users' = Put(users, id, row)
               /\ resp' = Ok(201, <<UserPrivate(id, row)>>)
       /\ UNCHANGED <<posts, now, issued, reqs>>
       /\ req' = <<"main_create_user", username, email>>

(***************************************************************************)
(* The clock, and the tokens a client may present.                         *)
(***************************************************************************)
Times == {k * d : k \in 0..MaxTicks, d \in TickMinutes}

Tick ==
    /\ \E d \in TickMinutes :
          /\ now + d \in Times
          /\ now' = now + d
    /\ UNCHANGED <<users, posts, issued, req, resp, reqs>>

Subjects == {str_of(i) : i \in UserIds} \cup {"abc"}
ClaimedExps == {0} \cup {t + access_token_expire_minutes : t \in Times}
Keys == {secret_key, "guess"}

\* an undecodable string
Garbage == [kind |-> "garbage", sub |-> None, exp |-> 0, sig |-> <<>>]

\* what an issued token becomes when its subject, its expiry or its signature
\* is changed
Tampered(token) ==
    {[token EXCEPT !.sub = s] : s \in Subjects \ {token.sub}}
    \cup {[token EXCEPT !.exp = e] : e \in ClaimedExps \ {token.exp}}
    \cup {[token EXCEPT !.sig = Sign(k, token.sub, token.exp)] :
             k \in Keys \ {secret_key}}

\* tokens made without the secret
Forged ==
    {[kind |-> "jwt", sub |-> str_of(i), exp |-> e,
      sig |-> Sign(k, str_of(i), e)] :
        i \in UserIds, e \in {0, Max(ClaimedExps)}, k \in Keys \ {secret_key}}

\* tokens signed by a holder of the secret whose subject is not an id
ForeignSigned ==
    {[kind |-> "jwt", sub |-> "abc", exp |-> e,
      sig |-> Sign(secret_key, "abc", e)] : e \in {Max(ClaimedExps)}}

Presentable ==
    {g.token : g \in issued}
      \cup UNION {Tampered(g.token) : g \in issued}
      \cup Forged \cup ForeignSigned \cup {Garbage}

(***************************************************************************)
(* Initial state and the specifications.                                   *)
(***************************************************************************)
NoResponse == Response(0, None, None, NoBody)
Idle == [op |-> "idle"]

Init ==
    /\ users = <<>>
    /\ posts = <<>>
    /\ now = 0
    /\ issued = {}
    /\ req = <<"none">>
    /\ resp = NoResponse
    /\ reqs = [r \in 1..MaxReqs |-> Idle]

Optional(S) == S \cup {None}

\* the blog: users and posts, one request at a time, the clock standing still
Accounts == {<<"bob", "B@x.io">>, <<"Bob", "b@x.io">>, <<"amy", "a@x.io">>}
CreateUser == \E a \in Accounts : create_user(a[1], a[2], "pw1")
UpdateUser ==
    \E i \in UserIds : update_user(i, "Bob", None, None)
DeleteUser == \E i \in UserIds : delete_user(i)
GetUser == \E i \in UserIds : get_user(i)
GetUserPosts == \E i \in UserIds : get_user_posts(i)
GetPosts == get_posts
CreatePost ==
    \E i \in UserIds : create_post("t1", "c1", i)
GetPost == \E p \in PostIds : get_post(p)
UpdatePostFull ==
    \E p \in PostIds, i \in UserIds : update_post_full(p, "t2", "c2", i)
UpdatePostPartial ==
    \E p \in PostIds, t \in {"t2", None} : update_post_partial(p, t, Unset)
DeletePost == \E p \in PostIds : delete_post(p)

Next ==
    \/ CreateUser
    \/ UpdateUser
    \/ DeleteUser
    \/ GetUser
    \/ GetUserPosts
    \/ GetPosts
    \/ CreatePost
    \/ GetPost
    \/ UpdatePostFull
    \/ UpdatePostPartial
    \/ DeletePost

Spec == Init /\ [][Next]_vars

\* posts over time: one author, posts written and edited as the clock moves
CreateAuthor == create_user("amy", "a@x.io", "pw1")
WritePost == \E t \in Titles : create_post(t, "c1", 1)
EditPostFull ==
    \E p \in PostIds, t \in Titles, c \in Contents :
        update_post_full(p, t, c, 1)
EditPostPartial ==
    \E p \in PostIds, t \in Titles \cup {Unset, None},
       c \in Contents \cup {Unset} :
        update_post_partial(p, t, c)

NextPosts ==
    \/ CreateAuthor
    \/ WritePost
    \/ EditPostFull
    \/ EditPostPartial
    \/ GetPosts
    \/ Tick

SpecPosts == Init /\ [][NextPosts]_vars

\* the users: registration and every shape of profile update
PatchUser ==
    \E i \in UserIds, n \in Optional(Usernames), e \in Optional(Emails),
       f \in Optional(ImageFiles) : update_user(i, n, e, f)

NextUsers ==
    \/ CreateUser
    \/ PatchUser
    \/ DeleteUser
    \/ GetUser

SpecUsers == Init /\ [][NextUsers]_vars

\* reading the posts of several authors, written at different times
Authors == {<<"amy", "a@x.io">>, <<"bob", "B@x.io">>}
CreateAuthors == \E a \in Authors : create_user(a[1], a[2], "pw1")
PostByAuthor == \E i \in UserIds : create_post("t1", "c1", i)

NextFeed ==
    \/ CreateAuthors
    \/ PostByAuthor
    \/ DeleteUser
    \/ GetUserPosts
    \/ GetPosts
    \/ Tick

SpecFeed == Init /\ [][NextFeed]_vars

\* login and /me
Registrations ==
    {<<"bob", "B@x.io", "pw1">>, <<"Bob", "b@x.io", "pw1">>,
     <<"amy", "a@x.io", "pw2">>}
Register == \E a \in Registrations : create_user(a[1], a[2], a[3])
ChangeUser ==
    \E i \in UserIds : update_user(i, None, "a@x.io", None)
Login ==
    \E e \in Emails, pw \in Passwords : login_for_access_token(e, pw)
GetCurrentUser == \E token \in Presentable : get_current_user(token)

NextAuth ==
    \/ Register
    \/ ChangeUser
    \/ DeleteUser
    \/ Login
    \/ GetCurrentUser
    \/ Tick

SpecAuth == Init /\ [][NextAuth]_vars

\* registration through either application: routers/users.py and main.py
RouterCreateUser ==
    \E n \in Usernames, e \in Emails : create_user(n, e, "pw1")
MainCreateUser ==
    \E n \in Usernames, e \in Emails : main_create_user(n, e)

NextMain ==
    \/ RouterCreateUser
    \/ MainCreateUser
    \/ DeleteUser
    \/ GetUser

SpecMain == Init /\ [][NextMain]_vars

(***************************************************************************)
(* Concurrent requests.  Each request has its own session; a handler gives *)
(* way to other requests at every await, that is at each statement it      *)
(* sends to the database.  reqs[r] is the request in flight in slot r and  *)
(* where it stands.                                                        *)
(***************************************************************************)
Slots == 1..MaxReqs

\* a new request takes the first free slot
Free(r) ==
    /\ reqs[r].op = "idle"
    /\ \A q \in Slots : q < r => reqs[q].op # "idle"

Creating == {r \in Slots : reqs[r].op = "create_user"}

Finish(r, request, response) ==
    /\ reqs' = [reqs EXCEPT ![r] = Idle]
    /\ req' = request
    /\ resp' = response

Goto(r, q) ==
    /\ reqs' = [reqs EXCEPT ![r] = q]
    /\ UNCHANGED <<req, resp>>

\* create_user, up to its first select
create_user_check_username(r, username, email, password) ==
    /\ Free(r)
    /\ NextId(users) + Cardinality(Creating) <= MaxUsers
    /\ IF UsersByUsername(users, username) # {}
       THEN Finish(r, <<"create_user", username, email, password>>,
                   HTTPException(400, "Username already exists", None))
       ELSE Goto(r, [op |-> "create_user", pc |-> "check_email",
                     username |-> username, email |-> email,
                     password |-> password])
    /\ UNCHANGED <<users, posts, now, issued>>

create_user_check_email(r) ==
    LET q == reqs[r]
    IN /\ q.op = "create_user" /\ q.pc = "check_email"
       /\ IF UsersByEmail(users, q.email) # {}
          THEN Finish(r, <<"create_user", q.username, q.email, q.password>>,
                      HTTPException(400, "Email already exists", None))
          ELSE Goto(r, [q EXCEPT !.pc = "commit"])
       /\ UNCHANGED <<users, posts, now, issued>>

\* db.add, commit and refresh: the INSERT is checked by the unique constraints
create_user_commit(r) ==
    LET q == reqs[r]
        row == new_user(q.username, q.email, q.password)
        id == NextId(users)
    IN /\ q.op = "create_user" /\ q.pc = "commit"
       /\ IF UniqueViolation(users, id, row)
          THEN /\ Finish(r, <<"create_user", q.username, q.email, q.password>>,
                         IntegrityError)
               /\ UNCHANGED users
          ELSE /\ Finish(r, <<"create_user", q.username, q.email, q.password>>,
                         Ok(201, <<UserPrivate(id, row)>>))
               /\ users' = Put(users, id, row)
       /\ UNCHANGED <<posts, now, issued>>

\* update_user, up to its select of the user
update_user_select(r, user_id, username, email, image_file) ==
    /\ Free(r)
    /\ IF UserById(users, user_id) = {}
       THEN Finish(r, <<"update_user", user_id, username, email, image_file>>,
                   HTTPException(404, "User not found", None))
       ELSE \E i \in UserById(users, user_id) :
               Goto(r, [op |-> "update_user", pc |-> "check_username",
                        user_id |-> i, username |-> username, email |-> email,
                        image_file |-> image_file, user |-> users[i]])
    /\ UNCHANGED <<users, posts, now, issued>>

update_user_check_username(r) ==
    LET q == reqs[r]
    IN /\ q.op = "update_user" /\ q.pc = "check_username"
       /\ IF /\ q.username # None
             /\ Lower(q.username) # Lower(q.user.username)
             /\ UsersByUsername(users, q.username) # {}
          THEN Finish(r, <<"update_user", q.user_id, q.username, q.email,
                           q.image_file>>,
                      HTTPException(400, "Username already exists", None))
          ELSE Goto(r, [q EXCEPT !.pc = "check_email"])
       /\ UNCHANGED <<users, posts, now, issued>>

update_user_check_email(r) ==
    LET q == reqs[r]
    IN /\ q.op = "update_user" /\ q.pc = "check_email"
       /\ IF /\ q.email # None
             /\ Lower(q.email) # Lower(q.user.email)
             /\ UsersByEmail(users, q.email) # {}
          THEN Finish(r, <<"update_user", q.user_id, q.username, q.email,
                           q.image_file>>,
                      HTTPException(400, "Email already registered", None))
          ELSE Goto(r, [q EXCEPT !.pc = "commit"])
       /\ UNCHANGED <<users, posts, now, issued>>

\* the UPDATE the session flushes: the columns whose value differs from the
\* one loaded, written over the stored row
flush_update(stored, loaded, new) ==
    User(IF new.username # loaded.username THEN new.username ELSE stored.username,
         IF new.email # loaded.email THEN new.email ELSE stored.email,
         stored.password_hash,
         IF new.image_file # loaded.image_file
         THEN new.image_file ELSE stored.image_file)

StaleDataError == HTTPException(500, "Internal Server Error", None)

update_user_commit(r) ==
    LET q == reqs[r]
        request == <<"update_user", q.user_id, q.username, q.email, q.image_file>>
        new == updated_user(q.user, q.username, q.email, q.image_file)
    IN /\ q.op = "update_user" /\ q.pc = "commit"
       /\ IF q.user_id \notin DOMAIN users
          THEN /\ Finish(r, request, StaleDataError)
               /\ UNCHANGED users
          ELSE LET row == flush_update(users[q.user_id], q.user, new)
               IN IF new # q.user /\ UniqueViolation(users, q.user_id, row)
                  THEN /\ Finish(r, request, IntegrityError)
                       /\ UNCHANGED users
                  ELSE /\ Finish(r, request,
                                 Ok(200, <<UserPrivate(q.user_id, row)>>))
                       /\ users' = Put(users, q.user_id, row)
       /\ UNCHANGED <<posts, now, issued>>

ConcCreateUser ==
    \E r \in Slots, a \in Accounts :
        create_user_check_username(r, a[1], a[2], "pw1")
ConcCreateUserCheckEmail == \E r \in Slots : create_user_check_email(r)
ConcCreateUserCommit == \E r \in Slots : create_user_commit(r)
ConcUpdateUser ==
    \E r \in Slots, i \in UserIds :
        \/ \E n \in {"Bob"} : update_user_select(r, i, n, None, None)
        \/ \E e \in {"B@x.io"} : update_user_select(r, i, None, e, None)
ConcUpdateUserCheckUsername == \E r \in Slots : update_user_check_username(r)
ConcUpdateUserCheckEmail == \E r \in Slots : update_user_check_email(r)
ConcUpdateUserCommit == \E r \in Slots : update_user_commit(r)

NextConc ==
    \/ ConcCreateUser
    \/ ConcCreateUserCheckEmail
    \/ ConcCreateUserCommit
    \/ ConcUpdateUser
    \/ ConcUpdateUserCheckUsername
    \/ ConcUpdateUserCheckEmail
    \/ ConcUpdateUserCommit

SpecConc == Init /\ [][NextConc]_vars

(***************************************************************************)
(* Posts written while a user is being deleted: create_post,               *)
(* update_post_full and delete_user split at their awaits.  The posts      *)
(* table declares ForeignKey("users.id"), which the SQLite connection does *)
(* not enforce (no PRAGMA foreign_keys), so a commit is not checked        *)
(* against the users table.                                                *)
(***************************************************************************)
WritingPosts == {r \in Slots : reqs[r].op = "create_post"}

\* the response cannot be built for a post whose author is gone
ResponseValidationError == HTTPException(500, "Internal Server Error", None)
PostResponseOr500(status, id, row, us) ==
    IF row.user_id \in DOMAIN us
    THEN Ok(status, <<PostResponse(id, row, us)>>)
    ELSE ResponseValidationError

\* create_post, up to its select of the user
create_post_select_user(r, title, content, user_id) ==
    /\ Free(r)
    /\ NextId(posts) + Cardinality(WritingPosts) <= MaxPosts
    /\ IF UserById(users, user_id) = {}
       THEN Finish(r, <<"create_post", user_id>>,
                   HTTPException(404, "User not found", None))
       ELSE Goto(r, [op |-> "create_post", pc |-> "commit", title |-> title,
                     content |-> content, user_id |-> user_id])
    /\ UNCHANGED <<users, posts, now, issued>>

\* db.add, commit, and the refresh that loads the author
create_post_commit(r) ==
    LET q == reqs[r]
        row == new_post(q.title, q.content, q.user_id, now)
        id == NextId(posts)
    IN /\ q.op = "create_post" /\ q.pc = "commit"
       /\ posts' = Put(posts, id, row)
       /\ Finish(r, <<"create_post", q.user_id>>,
                 PostResponseOr500(201, id, row, users))
       /\ UNCHANGED <<users, now, issued>>

\* update_post_full, up to its select of the post
update_post_full_select(r, post_id, title, content, user_id) ==
    /\ Free(r)
    /\ IF PostById(posts, post_id) = {}
       THEN Finish(r, <<"update_post_full", post_id, user_id>>,
                   HTTPException(404, "Post not found", None))
       ELSE \E p \in PostById(posts, post_id) :
               Goto(r, [op |-> "update_post_full",
                        pc |-> IF user_id # posts[p].user_id
                               THEN "check_user" ELSE "commit",
                        post_id |-> p, title |-> title, content |-> content,
                        user_id |-> user_id, post |-> posts[p]])
    /\ UNCHANGED <<users, posts, now, issued>>

update_post_full_check_user(r) ==
    LET q == reqs[r]
    IN /\ q.op = "update_post_full" /\ q.pc = "check_user"
       /\ IF UserById(users, q.user_id) = {}
          THEN Finish(r, <<"update_post_full", q.post_id, q.user_id>>,
                      HTTPException(404, "User not found", None))
          ELSE Goto(r, [q EXCEPT !.pc = "commit"])
       /\ UNCHANGED <<users, posts, now, issued>>

\* the UPDATE of a post: the columns that differ from the loaded ones
flush_post_update(stored, loaded, new) ==
    Post(IF new.title # loaded.title THEN new.title ELSE stored.title,
         IF new.content # loaded.content THEN new.content ELSE stored.content,
         IF new.user_id # loaded.user_id THEN new.user_id ELSE stored.user_id,
         stored.date_posted)

\* the assignments, commit and refresh; the row may be gone by now
update_post_full_commit(r) ==
    LET q == reqs[r]
        request == <<"update_post_full", q.post_id, q.user_id>>
        new == full_update(q.post, q.title, q.content, q.user_id)
    IN /\ q.op = "update_post_full" /\ q.pc = "commit"
       /\ IF q.post_id \notin DOMAIN posts
          THEN /\ Finish(r, request, StaleDataError)
               /\ UNCHANGED posts
          ELSE LET row == flush_post_update(posts[q.post_id], q.post, new)
               IN /\ posts' = Put(posts, q.post_id, row)
                  /\ Finish(r, request,
                            PostResponseOr500(200, q.post_id, row, users))
       /\ UNCHANGED <<users, now, issued>>

\* delete_user, up to its select of the user
delete_user_select(r, user_id) ==
    /\ Free(r)
    /\ IF UserById(users, user_id) = {}
       THEN Finish(r, <<"delete_user", user_id>>,
                   HTTPException(404, "User not found", None))
       ELSE Goto(r, [op |-> "delete_user", pc |-> "delete",
                     user_id |-> user_id])
    /\ UNCHANGED <<users, posts, now, issued>>

\* await db.delete(user): the cascade loads the user's posts
delete_user_load_posts(r) ==
    LET q == reqs[r]
    IN /\ q.op = "delete_user" /\ q.pc = "delete"
       /\ Goto(r, [op |-> "delete_user", pc |-> "commit",
                   user_id |-> q.user_id,
                   posts |-> CascadePosts(posts, q.user_id)])
       /\ UNCHANGED <<users, posts, now, issued>>

\* commit: DELETE of the loaded posts by id, then of the user
delete_user_commit(r) ==
    LET q == reqs[r]
    IN /\ q.op = "delete_user" /\ q.pc = "commit"
       /\ posts' = [p \in DOMAIN posts \ q.posts |-> posts[p]]
       /\ users' = Remove(users, q.user_id)
       /\ issued' = HolderDeleted(issued, q.user_id)
       /\ Finish(r, <<"delete_user", q.user_id>>, Ok(204, NoBody))
       /\ UNCHANGED now

ConcCreatePost ==
    \E r \in Slots, i \in UserIds : create_post_select_user(r, "t1", "c1", i)
ConcCreatePostCommit == \E r \in Slots : create_post_commit(r)
ConcUpdatePostFull ==
    \E r \in Slots, p \in PostIds, i \in UserIds :
        update_post_full_select(r, p, "t2", "c2", i)
ConcUpdatePostFullCheckUser == \E r \in Slots : update_post_full_check_user(r)
ConcUpdatePostFullCommit == \E r \in Slots : update_post_full_commit(r)
ConcDeleteUser == \E r \in Slots, i \in UserIds : delete_user_select(r, i)
ConcDeleteUserLoadPosts == \E r \in Slots : delete_user_load_posts(r)
ConcDeleteUserCommit == \E r \in Slots : delete_user_commit(r)

NextConcPosts ==
    \/ CreateAuthors
    \/ ConcCreatePost
    \/ ConcCreatePostCommit
    \/ ConcUpdatePostFull
    \/ ConcUpdatePostFullCheckUser
    \/ ConcUpdatePostFullCommit
    \/ ConcDeleteUser
    \/ ConcDeleteUserLoadPosts
    \/ ConcDeleteUserCommit

SpecConcPosts == Init /\ [][NextConcPosts]_vars

(***************************************************************************)
(* Claims about login and /me, checked under SpecAuth.                     *)
(***************************************************************************)
Ttl == access_token_expire_minutes

\* C1: a token login issued for user U, presented unmodified to
\* get_current_user strictly before issue time + ttl, is verified, yields
\* the subject str(U.id), and /me answers 200 with U while U exists.
C1_TokenBeforeExpiryReturnsUser ==
    [][\A g \in issued :
          now < g.iat + Ttl =>
            /\ verify_access_token(g.token, now) = str_of(g.uid)
            /\ int_of(verify_access_token(g.token, now)) = g.uid
            /\ (req' = <<"get_current_user", g.token>>
                  /\ get_current_user(g.token) /\ ~g.deleted) =>
                  /\ g.uid \in DOMAIN users
                  /\ resp' = Ok(200, <<UserPrivate(g.uid, users[g.uid])>>)]_vars

C1_Witness ==
    \E g \in issued :
        /\ ~g.deleted
        /\ g.iat < now /\ now < g.iat + Ttl
        /\ req = <<"get_current_user", g.token>>
        /\ resp = Ok(200, <<UserPrivate(g.uid, users[g.uid])>>)

\* C2: a token presented to get_current_user after its expiry instant
\* (issue time + ttl) yields no subject and the request ends with 401,
\* whatever users exist.
C2_TokenAfterExpiryRejected ==
    [][\A g \in issued :
          now > g.iat + Ttl =>
            /\ verify_access_token(g.token, now) = None
            /\ (req' = <<"get_current_user", g.token>>
                  /\ get_current_user(g.token)) =>
                  resp'.status = 401 /\ resp'.body = NoBody]_vars

C2_Witness ==
    \E g \in issued :
        /\ ~g.deleted /\ g.uid \in DOMAIN users
        /\ now > g.iat + Ttl
        /\ req = <<"get_current_user", g.token>>
        /\ resp.status = 401

\* C3: a token whose signature does not match its contents under the
\* configured secret (an issued token whose subject, expiry or signature was
\* changed, or one made without the secret) yields no subject and is
\* answered 401, whether its claimed expiry is in the future or in the past.
C3_TamperedTokenRejected ==
    [][\A t \in IF req'[1] = "get_current_user" THEN {req'[2]} ELSE {} :
          (get_current_user(t) /\ ~ValidSignature(t)) =>
            /\ verify_access_token(t, now) = None
            /\ resp'.status = 401 /\ resp'.body = NoBody]_vars

C3_Witness ==
    \E g \in issued : \E t \in Tampered(g.token) :
        /\ t.sub # g.token.sub /\ int_of(t.sub) \in DOMAIN users
        /\ t.exp > now
        /\ req = <<"get_current_user", t>>
        /\ resp.status = 401

\* the reasons for which /me refuses a token
BadSignature(t) == t.kind = "jwt" /\ ~ValidSignature(t)
Malformed(t) == t.kind # "jwt"
Expired(t) == ValidSignature(t) /\ t.exp <= now
Unexpired(t) == ValidSignature(t) /\ t.exp > now
NonIntegerSubject(t) == Unexpired(t) /\ int_of(t.sub) = ValueError
NoSuchUser(t) ==
    Unexpired(t) /\ int_of(t.sub) # ValueError /\ int_of(t.sub) \notin DOMAIN users

\* C4 as stated: every refusal of /me is the same response (two refusals in
\* a row cannot be told apart) and changes no stored state.
C4_AllFailuresSameResponse ==
    [][\A t \in IF req'[1] = "get_current_user" THEN {req'[2]} ELSE {} :
          (get_current_user(t) /\ resp'.status # 200) =>
            /\ resp'.status = 401
            /\ (req[1] = "get_current_user" /\ resp.status # 200) => resp' = resp
            /\ UNCHANGED <<users, posts, issued>>]_vars

\* C4 as amended: a bad signature, a malformed token, an expired token and a
\* non-integer subject all get 401 "Invalid or expired token" with the Bearer
\* challenge; a subject naming no existing user gets 401 with the same
\* header and the detail "User not found"; no refusal changes stored state.
C4_FailuresSameExceptUserNotFound ==
    [][\A t \in IF req'[1] = "get_current_user" THEN {req'[2]} ELSE {} :
          get_current_user(t) =>
            /\ (BadSignature(t) \/ Malformed(t) \/ Expired(t) \/ NonIntegerSubject(t))
                  => resp' = HTTPException(401, "Invalid or expired token", "Bearer")
            /\ NoSuchUser(t)
                  => resp' = HTTPException(401, "User not found", "Bearer")
            /\ resp'.status # 200 => UNCHANGED <<users, posts, issued>>
            /\ resp'.status # 200 =>
                  (BadSignature(t) \/ Malformed(t) \/ Expired(t)
                     \/ NonIntegerSubject(t) \/ NoSuchUser(t))]_vars

C4_Witness ==
    \E g \in issued :
        /\ g.deleted /\ NoSuchUser(g.token)
        /\ req = <<"get_current_user", g.token>>
        /\ resp = HTTPException(401, "User not found", "Bearer")

\* C10: login answers the same 401 (status, detail, headers) when no user
\* has the submitted email and when the password is wrong, issuing no token;
\* a token is issued only for a user whose email equals the submitted one
\* ignoring case and whose stored hash the password verifies against.
C10_LoginFailuresAlike ==
    [][\A e \in Emails, pw \in Passwords :
          (req' = <<"login_for_access_token", e, pw>>
             /\ login_for_access_token(e, pw)) =>
            LET match == {i \in DOMAIN users : Lower(users[i].email) = Lower(e)}
            IN /\ resp'.status \in {200, 401}
               /\ resp'.status = 401 =>
                     /\ resp' = HTTPException(401, "Incorrect email or password",
                                              "Bearer")
                     /\ issued' = issued
               /\ (\A i \in match : ~verify_password(pw, users[i].password_hash))
                     => resp'.status = 401
               /\ resp'.status = 200 =>
                     \E i \in match :
                        /\ verify_password(pw, users[i].password_hash)
                        /\ resp'.body[1].access_token
                              = create_access_token(str_of(i), Ttl, now)
                        /\ issued' \ issued
                              \subseteq {g \in issued' : g.uid = i /\ g.iat = now}]_vars

C10_Witness ==
    /\ Len(req) = 3 /\ req[1] = "login_for_access_token"
    /\ resp = HTTPException(401, "Incorrect email or password", "Bearer")
    /\ \E i \in DOMAIN users :
          /\ Lower(users[i].email) = Lower(req[2])
          /\ ~verify_password(req[3], users[i].password_hash)
    /\ \E j \in DOMAIN users : verify_password(req[3], users[j].password_hash)

(***************************************************************************)
(* Claims about the CRUD handlers.                                         *)
(***************************************************************************)
DuplicateOf(n, e) ==
    \E i \in DOMAIN users :
        \/ Lower(users[i].username) = Lower(n)
        \/ Lower(users[i].email) = Lower(e)

\* C5: create_user (POST /api/users) with a username or an email that
\* equals, ignoring letter case, that of an existing user is rejected with
\* 400 and the stored users are unchanged.  Checked under SpecMain, over the
\* handler of routers/users.py and the handler of main.py.
C5_DuplicateUserRejected ==
    [][\A n \in Usernames, e \in Emails :
          (/\ \/ \E pw \in Passwords : create_user(n, e, pw)
              \/ main_create_user(n, e)
           /\ DuplicateOf(n, e))
          => (resp'.status = 400 /\ users' = users)]_vars

\* the same, of the handler of routers/users.py alone
C5_RouterRejectsDuplicate ==
    [][\A n \in Usernames, e \in Emails, pw \in Passwords :
          (create_user(n, e, pw) /\ DuplicateOf(n, e))
          => (resp'.status = 400 /\ users' = users)]_vars

\* C6: after a successful delete_user(u), u no longer exists and no stored
\* post has user_id = u; every other user and every post of another user is
\* exactly as before.
C6_DeleteUserCascades ==
    [][\A u \in UserIds :
          (delete_user(u) /\ resp'.status = 204) =>
            /\ u \in DOMAIN users
            /\ DOMAIN users' = DOMAIN users \ {u}
            /\ \A i \in DOMAIN users' : users'[i] = users[i]
            /\ \A p \in DOMAIN posts' : posts'[p].user_id # u
            /\ DOMAIN posts' \subseteq DOMAIN posts
            /\ \A p \in DOMAIN posts :
                  posts[p].user_id # u =>
                     p \in DOMAIN posts' /\ posts'[p] = posts[p]]_vars

C6_Witness ==
    /\ req[1] = "delete_user" /\ resp.status = 204
    /\ req[2] \notin DOMAIN users
    /\ users # <<>>
    /\ \E p \in DOMAIN posts : p > 1 /\ posts[p].user_id # req[2]
    /\ 1 \notin DOMAIN posts

\* C8: date_posted is set when create_post inserts the post and no step
\* changes it afterwards: whatever handler runs, every post that exists
\* before and after the step keeps its date_posted.
C8_DatePostedImmutable ==
    [][/\ \A p \in DOMAIN posts \cap DOMAIN posts' :
             posts'[p].date_posted = posts[p].date_posted
       /\ \A p \in DOMAIN posts' \ DOMAIN posts :
             req'[1] = "create_post" /\ posts'[p].date_posted = now]_vars

C8_Witness ==
    /\ req[1] = "update_post_full" /\ resp.status = 200
    /\ posts[req[2]].date_posted < now
    /\ resp.body[1].date_posted = posts[req[2]].date_posted

\* C9: every operation addressed to an absent record answers 404 and leaves
\* users and posts unchanged.
C9_AbsentRecord404 ==
    [][/\ \A p \in PostIds \ DOMAIN posts :
             (/\ req'[1] \in {"get_post", "delete_post", "update_post_full",
                            "update_post_partial"}
              /\ req'[2] = p
              /\ \/ get_post(p)
                 \/ delete_post(p)
                 \/ \E t \in Titles, c \in Contents, i \in UserIds :
                       update_post_full(p, t, c, i)
                 \/ \E t \in Titles \cup {Unset, None},
                       c \in Contents \cup {Unset, None} :
                       update_post_partial(p, t, c))
             => (resp'.status = 404 /\ UNCHANGED <<users, posts>>)
       /\ \A u \in UserIds \ DOMAIN users :
             (/\ req'[1] \in {"get_user", "get_user_posts", "delete_user",
                            "update_user", "create_post"}
              /\ req'[2] = u
              /\ \/ get_user(u)
                 \/ get_user_posts(u)
                 \/ delete_user(u)
                 \/ \E n \in Optional(Usernames), e \in Optional(Emails),
                       f \in Optional(ImageFiles) : update_user(u, n, e, f)
                 \/ \E t \in Titles, c \in Contents : create_post(t, c, u))
             => (resp'.status = 404 /\ UNCHANGED <<users, posts>>)]_vars

C9_Witness ==
    /\ req[1] = "update_post_partial" /\ resp.status = 404
    /\ req[2] \notin DOMAIN posts
    /\ posts # <<>>

(***************************************************************************)
(* Claims about concurrent requests, checked under SpecConc.               *)
(***************************************************************************)
\* C7: in every reachable state, also when create_user and update_user
\* requests interleave between their checks and their commit, no two stored
\* users have the same username and no two have the same email; the racing
\* request that would store the duplicate fails at the unique constraint.
C7_StoredUsersUnique ==
    \A i, j \in DOMAIN users :
        i # j => /\ users[i].username # users[j].username
                 /\ users[i].email # users[j].email

C7_Witness ==
    /\ req[1] = "create_user" /\ resp = IntegrityError
    /\ \E i \in DOMAIN users :
          users[i].username = req[2] \/ users[i].email = Lower(req[3])
    /\ \E r \in Slots : reqs[r].op = "update_user"

\* C11: in every reachable state, also when create_user and update_user
\* requests interleave, no two distinct stored users have usernames that are
\* equal ignoring letter case.
C11_UsernamesUniqueIgnoringCase ==
    \A i, j \in DOMAIN users :
        i # j => Lower(users[i].username) # Lower(users[j].username)

\* C12: in every reachable state every stored post's user_id is the id of
\* an existing user, also when create_post or update_post_full interleave
\* with a delete_user of that user.
C12_PostsHaveExistingUser ==
    \A p \in DOMAIN posts : posts[p].user_id \in DOMAIN users

\* C13: a token issued at login for user U authenticates nobody but U:
\* presented unexpired to get_current_user it returns U while U exists and
\* is answered 401 once U has been deleted, whatever users were created,
\* changed or deleted since (also a user who was given U's former id).
C13_TokenAuthenticatesOnlyItsUser ==
    [][\A g \in issued :
          (/\ req' = <<"get_current_user", g.token>>
           /\ get_current_user(g.token)
           /\ now < g.iat + Ttl) =>
            IF g.deleted
            THEN resp'.status = 401
            ELSE /\ g.uid \in DOMAIN users
                 /\ resp' = Ok(200, <<UserPrivate(g.uid, users[g.uid])>>)]_vars

(***************************************************************************)
(* Claims about single post and user handlers.                             *)
(***************************************************************************)
\* what a PATCH request may carry for title and for content
PatchTitles == Titles \cup {Unset, None}
PatchContents == Contents \cup {Unset, None}

\* the effect C14 describes for a PATCH of post p carrying t and c
PatchedAsSent(p, t, c) ==
    /\ DOMAIN posts' = DOMAIN posts
    /\ posts'[p].title = (IF t # Unset THEN t ELSE posts[p].title)
    /\ posts'[p].content = (IF c # Unset THEN c ELSE posts[p].content)
    /\ posts'[p].user_id = posts[p].user_id
    /\ posts'[p].date_posted = posts[p].date_posted
    /\ \A o \in DOMAIN posts \ {p} : posts'[o] = posts[o]
    /\ users' = users

\* C14: update_post_partial on an existing post changes exactly the fields
\* among title and content that the request sent, to the values sent; fields
\* not sent keep their value; user_id, id and date_posted of the post, every
\* other post and every user are unchanged.
C14_PartialUpdateChangesSentFields ==
    [][\A p \in DOMAIN posts, t \in PatchTitles, c \in PatchContents :
          (/\ req' = <<"update_post_partial", p>>
           /\ update_post_partial(p, t, c))
          => PatchedAsSent(p, t, c)]_vars

\* the same, of requests that send no null
C14_PartialUpdateWithoutNull ==
    [][\A p \in DOMAIN posts, t \in PatchTitles \ {None},
          c \in PatchContents \ {None} :
          (/\ req' = <<"update_post_partial", p>>
           /\ update_post_partial(p, t, c))
          => (resp'.status = 200 /\ PatchedAsSent(p, t, c))]_vars

\* C15: update_post_full on an existing post answers 404 and leaves the post
\* unchanged when the request's user_id differs from the post's and names no
\* existing user; otherwise it sets title, content and user_id to the
\* request's values and leaves the post's id, its date_posted and all other
\* posts unchanged.
C15_FullUpdate ==
    [][\A p \in DOMAIN posts, t \in Titles, c \in Contents, i \in UserIds :
          (/\ req' = <<"update_post_full", p, i>>
           /\ update_post_full(p, t, c, i))
          => IF i # posts[p].user_id /\ i \notin DOMAIN users
             THEN resp'.status = 404 /\ posts' = posts
             ELSE /\ resp'.status = 200
                  /\ resp'.body[1].id = p
                  /\ DOMAIN posts' = DOMAIN posts
                  /\ posts'[p].title = t
                  /\ posts'[p].content = c
                  /\ posts'[p].user_id = i
                  /\ posts'[p].date_posted = posts[p].date_posted
                  /\ \A o \in DOMAIN posts \ {p} : posts'[o] = posts[o]]_vars

C15_Witness ==
    /\ req = <<"update_post_full", 1, 2>> /\ resp.status = 200
    /\ posts[1].user_id = 2 /\ posts[1].title = "t2" /\ posts[1].content = "c2"
    /\ \E o \in DOMAIN posts : o # 1 /\ posts[o].user_id = 1

\* a user other than u holds this username / this email, ignoring case
UsernameTaken(u, n) ==
    n # None /\ \E v \in DOMAIN users \ {u} :
                   Lower(users[v].username) = Lower(n)
EmailTaken(u, e) ==
    e # None /\ \E v \in DOMAIN users \ {u} : Lower(users[v].email) = Lower(e)

\* C16: update_user on an existing user u is rejected with 400 exactly when
\* the requested username equals, ignoring case, the username of another
\* user, or the requested email equals, ignoring case, the email of another
\* user; repeating u's own username or email, in any letter case, is
\* accepted; a rejection changes no field of u (nor of anyone).
C16_UpdateUserRejectsOthersNames ==
    [][\A u \in DOMAIN users, n \in Optional(Usernames),
          e \in Optional(Emails), f \in Optional(ImageFiles) :
          (/\ req' = <<"update_user", u, n, e, f>>
           /\ update_user(u, n, e, f))
          => /\ resp'.status \in {200, 400}
             /\ resp'.status = 400 <=> (UsernameTaken(u, n) \/ EmailTaken(u, e))
             /\ resp'.status = 400 => users' = users
             /\ resp'.status = 200 =>
                   /\ DOMAIN users' = DOMAIN users
                   /\ n # None => users'[u].username = n
                   /\ e # None => users'[u].email = Lower(e)
                   /\ f # None => users'[u].image_file = f]_vars

C16_Witness ==
    /\ Len(req) = 5 /\ req[1] = "update_user"
    /\ resp = HTTPException(400, "Email already registered", None)
    /\ req[2] \in DOMAIN users
    /\ req[3] # None /\ req[3] # users[req[2]].username
    /\ req[5] # None /\ req[5] # users[req[2]].image_file
    /\ \E v \in DOMAIN users \ {req[2]} : users[v].email = Lower(req[4])

\* C17: after any sequence of create_user and update_user operations every
\* stored user's email is in lower case, so that emails that differ exactly
\* (what the unique constraint compares) also differ ignoring case.
C17_StoredEmailsLowerCase ==
    /\ \A i \in DOMAIN users : users[i].email = Lower(users[i].email)
    /\ \A i, j \in DOMAIN users :
          users[i].email # users[j].email =>
             Lower(users[i].email) # Lower(users[j].email)

C17_Witness ==
    /\ Len(req) = 5 /\ req[1] = "update_user" /\ resp.status = 200
    /\ req[4] # None /\ req[4] # Lower(req[4])
    /\ users[req[2]].email = Lower(req[4])
    /\ \E v \in DOMAIN users \ {req[2]} : users[v].email # users[req[2]].email

\* C18: get_user_posts(u) answers 404 when user u does not exist and, when
\* u exists, returns exactly the stored posts whose user_id is u (the empty
\* list when there are none), each once, ordered by date_posted from newest
\* to oldest.
C18_UserPostsExactAndOrdered ==
    [][\A u \in UserIds :
          (req' = <<"get_user_posts", u>> /\ get_user_posts(u)) =>
            IF u \notin DOMAIN users
            THEN resp'.status = 404 /\ resp'.body = NoBody
            ELSE LET body == resp'.body
                     mine == {p \in DOMAIN posts : posts[p].user_id = u}
                 IN /\ resp'.status = 200
                    /\ Len(body) = Cardinality(mine)
                    /\ {body[k].id : k \in DOMAIN body} = mine
                    /\ \A k \in DOMAIN body :
                          /\ body[k].user_id = u
                          /\ body[k].title = posts[body[k].id].title
                          /\ body[k].content = posts[body[k].id].content
                          /\ body[k].date_posted = posts[body[k].id].date_posted
                    /\ \A k, l \in DOMAIN body :
                          k < l => body[k].date_posted >= body[l].date_posted]_vars

C18_Witness ==
    /\ req[1] = "get_user_posts" /\ resp.status = 200
    /\ Len(resp.body) = 2
    /\ resp.body[1].date_posted > resp.body[2].date_posted
    /\ resp.body[1].id > resp.body[2].id
    /\ DOMAIN users \ {req[2]} # {}

\* C19: a successful delete_post(p) answers 204 and removes exactly post p:
\* every other post with all its fields and every user are unchanged; a
\* second delete_post(p) right after it answers 404 and changes nothing.
C19_DeletePostRemovesExactlyOne ==
    [][\A p \in PostIds :
          (req' = <<"delete_post", p>> /\ delete_post(p)) =>
            /\ resp'.status = 204 =>
                  /\ p \in DOMAIN posts
                  /\ resp'.body = NoBody
                  /\ DOMAIN posts' = DOMAIN posts \ {p}
                  /\ \A o \in DOMAIN posts' : posts'[o] = posts[o]
                  /\ users' = users
            /\ p \in DOMAIN posts => resp'.status = 204
            /\ (req = <<"delete_post", p>> /\ resp.status = 204) =>
                  /\ resp' = HTTPException(404, "Post not found", None)
                  /\ UNCHANGED <<users, posts>>]_vars

C19_Witness ==
    /\ req[1] = "delete_post" /\ resp.status = 204
    /\ req[2] \notin DOMAIN posts
    /\ \E o \in DOMAIN posts : o > req[2]
    /\ users # <<>>

====
